---------------------------- MODULE Spec2Model ----------------------------
(***************************************************************************)
(* The Wave conformance test harness, tools/run_tests.py: pre-flight       *)
(* check, fixture discovery, the standard-mode runner and its classifier,  *)
(* the server check of test56.wave, the detached datagram stimulus, and    *)
(* the aggregation of the results into the five summary buckets.           *)
(*                                                                         *)
(* Text (fixture names, captured output, network bytes) is a sequence of   *)
(* one-character strings.  Time is counted in tenths of a second: `clock`  *)
(* is the time the driver has spent in its current blocking call.          *)
(***************************************************************************)
EXTENDS Integers, Sequences, FiniteSets, TLC

(* ------------------------------ bounds -------------------------------- *)

\* At most this many fixtures lie in the test directory: the flat files
\* test*.wave and the directory fixture test28.
MaxFixtures == 2

(* ------------------------- program constants -------------------------- *)

TIMEOUT_SEC == 5

\* time.sleep(0.5) of send_udp_for_test61, in tenths of a second
UDP_DELAY == 5

\* time.sleep(1.0), the server boot wait, in tenths of a second
BOOT_WAIT == 10

\* s.settimeout(2), in seconds
SOCK_TIMEOUT == 2

\* proc.wait(timeout=1), in seconds
TERM_WAIT == 1

\* time.sleep(0.3) between two flat fixtures, in tenths of a second
PAUSE == 3

\* s.recv(4096)
RECV_BUFSIZE == 4096

\* exit(1) of the pre-flight check
EXIT_NO_WAVEC == 1

\* Outcome codes returned by run_and_classify
PASS_ZERO == 1
PASS_NONZERO == 3
FAIL == 0
SKIP == 2
TIMEOUT == 0 - 1

Outcomes == {PASS_ZERO, PASS_NONZERO, FAIL, SKIP, TIMEOUT}

KNOWN_TIMEOUT == {}

FAIL_PATTERNS ==
  << <<"W","a","v","e","E","r","r","o","r">>,
     <<"W","a","v","e","E","r","r","o","r","K","i","n","d">>,
     <<"S","y","n","t","a","x","E","r","r","o","r">>,
     <<"f","a","i","l","e","d"," ","t","o"," ","p","a","r","s","e">>,
     <<"F","a","i","l","e","d"," ","t","o"," ","r","u","n">>,
     <<"t","h","r","e","a","d"," ","'","m","a","i","n","'"," ","p","a","n","i","c","k","e","d">>,
     <<"p","a","n","i","c","k","e","d"," ","a","t">>,
     <<"L","L","V","M"," ","E","R","R","O","R">>,
     <<"S","e","g","m","e","n","t","a","t","i","o","n"," ","f","a","u","l","t">>,
     <<"s","t","a","c","k"," ","o","v","e","r","f","l","o","w">> >>

\* b"Welcome to the Wave HTTP Server!"
MARKER ==
  <<"W","e","l","c","o","m","e"," ","t","o"," ","t","h","e"," ",
    "W","a","v","e"," ","H","T","T","P"," ","S","e","r","v","e","r","!">>

N_test22 == <<"t","e","s","t","2","2",".","w","a","v","e">>
N_test56 == <<"t","e","s","t","5","6",".","w","a","v","e">>
N_test61 == <<"t","e","s","t","6","1",".","w","a","v","e">>
N_test62 == <<"t","e","s","t","6","2",".","w","a","v","e">>
N_test74 == <<"t","e","s","t","7","4",".","w","a","v","e">>
N_test28_dir == <<"t","e","s","t","2","8"," ","(","d","i","r",")">>

(* ------------------------------ text ---------------------------------- *)

\* str.lower() on one character
LowerChar(c) ==
  CASE c = "A" -> "a" [] c = "B" -> "b" [] c = "C" -> "c" [] c = "D" -> "d"
    [] c = "E" -> "e" [] c = "F" -> "f" [] c = "G" -> "g" [] c = "H" -> "h"
    [] c = "I" -> "i" [] c = "J" -> "j" [] c = "K" -> "k" [] c = "L" -> "l"
    [] c = "M" -> "m" [] c = "N" -> "n" [] c = "O" -> "o" [] c = "P" -> "p"
    [] c = "Q" -> "q" [] c = "R" -> "r" [] c = "S" -> "s" [] c = "T" -> "t"
    [] c = "U" -> "u" [] c = "V" -> "v" [] c = "W" -> "w" [] c = "X" -> "x"
    [] c = "Y" -> "y" [] c = "Z" -> "z" [] OTHER -> c

\* str.lower()
Lower(s) == [i \in 1..Len(s) |-> LowerChar(s[i])]

\* the characters str.strip() removes
IsSpace(c) == c \in {" ", "\t", "\n", "\r", "\f"}

\* str.strip(): drop the leading and the trailing whitespace
Strip(s) ==
  LET keep == {i \in 1..Len(s) : ~IsSpace(s[i])}
  IN IF keep = {} THEN <<>>
     ELSE LET lo == CHOOSE i \in keep : \A j \in keep : i <= j
              hi == CHOOSE i \in keep : \A j \in keep : j <= i
          IN SubSeq(s, lo, hi)

\* `sub in s` on str and on bytes
Contains(sub, s) ==
  \E off \in 0..(Len(s) - Len(sub)) : SubSeq(s, off + 1, off + Len(sub)) = sub

\* looks_like_fail with line 114 comparing the pattern as written: `p in s_low`
looks_like_fail_pattern_not_lowered(stderr) ==
  IF stderr = <<>> THEN FALSE
  ELSE LET s == Strip(stderr)
       IN IF s = <<>> THEN FALSE
          ELSE LET s_low == Lower(s)
               IN \E k \in 1..Len(FAIL_PATTERNS) :
                     Contains(FAIL_PATTERNS[k], s_low)

\* looks_like_fail: the loop over FAIL_PATTERNS on the trimmed, lowered text
looks_like_fail(stderr) ==
  IF stderr = <<>> THEN FALSE
  ELSE LET s == Strip(stderr)
       IN IF s = <<>> THEN FALSE
          ELSE LET s_low == Lower(s)
               IN \E k \in 1..Len(FAIL_PATTERNS) :
                     Contains(Lower(FAIL_PATTERNS[k]), s_low)

(* ------------------------- fixture discovery -------------------------- *)

\* The code point of a character of a fixture file name
Ord(c) ==
  CASE c = " " -> 32 [] c = "(" -> 40 [] c = ")" -> 41 [] c = "." -> 46
    [] c = "0" -> 48 [] c = "1" -> 49 [] c = "2" -> 50 [] c = "3" -> 51
    [] c = "4" -> 52 [] c = "5" -> 53 [] c = "6" -> 54 [] c = "7" -> 55
    [] c = "8" -> 56 [] c = "9" -> 57 [] c = "a" -> 97 [] c = "d" -> 100
    [] c = "e" -> 101 [] c = "i" -> 105 [] c = "r" -> 114 [] c = "s" -> 115
    [] c = "t" -> 116 [] c = "v" -> 118 [] c = "w" -> 119

\* a < b on two paths of the same directory: the order sorted() uses
PathLess(a, b) ==
  \/ /\ Len(a) < Len(b)
     /\ SubSeq(b, 1, Len(a)) = a
  \/ \E i \in 1..Len(a) :
        /\ i <= Len(b)
        /\ SubSeq(a, 1, i - 1) = SubSeq(b, 1, i - 1)
        /\ Ord(a[i]) < Ord(b[i])

\* sorted with reverse=True: the names of S in descending order
RECURSIVE sorted_reverse(_)
sorted_reverse(S) ==
  IF S = {} THEN <<>>
  ELSE LET last == CHOOSE a \in S : \A b \in S \ {a} : PathLess(b, a)
       IN <<last>> \o sorted_reverse(S \ {last})

\* sorted(TEST_DIR.glob("test*.wave")): the names of S in ascending order
RECURSIVE sorted(_)
sorted(S) ==
  IF S = {} THEN <<>>
  ELSE LET least == CHOOSE a \in S : \A b \in S \ {a} : PathLess(a, b)
       IN <<least>> \o sorted(S \ {least})

\* The flat fixture files a test directory may hold: the server fixture, the
\* two datagram fixtures and one with no stimulus, whose number has one digit
FlatNames ==
  { N_test56, N_test61, N_test62,
    <<"t","e","s","t","7",".","w","a","v","e">> }

(* ---------------------- what a child process does --------------------- *)

\* Exit statuses of a child (a negative one: killed by that signal)
ExitCodes == {0, 2, 0 - 11}

\* Texts a child writes to its standard error
StderrTexts ==
  { <<>>,
    <<" ","\n">>,
    <<"w","a","r","n","i","n","g",":"," ","u","n","u","s","e","d"," ","x","\n">>,
    <<"t","h","r","e","a","d"," ","'","m","a","i","n","'"," ","p","a","n","i","c","k","e","d"," ","a","t"," ","m","a","i","n",".","r","s","\n">>,
    <<"S","E","G","M","E","N","T","A","T","I","O","N"," ","F","A","U","L","T","\n">>,
    <<" "," ","l","l","v","m"," ","e","r","r","o","r",":"," ","b","a","d"," ","I","R"," "," ","\n">>,
    <<"W","a","v","e"," ","E","r","r","o","r",":"," ","p","a","n","i","c","k","e","d","\n","a","t","\n">> }

\* Texts a child writes to its standard output
StdoutTexts ==
  { <<>>,
    <<"W","a","v","e","E","r","r","o","r",":"," ","p","r","i","n","t","e","d","\n">> }

NoResult == [kind |-> "none"]

\* subprocess.CompletedProcess, as subprocess.run returns it
CompletedProcess(rc, out, err) ==
  [kind |-> "completed", returncode |-> rc, stdout |-> out, stderr |-> err]

\* subprocess.TimeoutExpired, with the output captured before the expiry
TimeoutExpired(out, err) == [kind |-> "timeout", stdout |-> out, stderr |-> err]

\* The ways the server child may answer the request, as the segments it sends
ResponsePlans ==
  LET ok == <<"H","T","T","P","/","1",".","1"," ","2","0","0"," ","O","K","\r","\n","\r","\n">>
      notfound == <<"H","T","T","P","/","1",".","1"," ","4","0","4","\r","\n","\r","\n">>
  IN { <<ok \o MARKER>>,
       <<ok, MARKER>>,
       <<SubSeq(MARKER, 1, 15), SubSeq(MARKER, 16, Len(MARKER))>>,
       <<notfound>>,
       <<>> }

(* ------------------------------- state -------------------------------- *)

VARIABLES
  wavecExists,   \* WAVEC.exists() at start-up
  testDirExists, \* TEST_DIR exists
  testFiles,     \* the files of TEST_DIR that match test*.wave
  test28Main,    \* TEST_DIR / "test28" / "main.wave" exists
  pc,            \* the driver's position
  paths,         \* the sorted list the for loop iterates over
  idx,           \* position of the for loop in paths
  name,          \* the fixture being run
  caller,        \* where run_and_classify was called from: "loop" or "test28"
  stdin_data,    \* run_and_classify's stdin_data
  proc_result,   \* what subprocess.run gave for the current fixture
  retval,        \* the value run_test56_server is returning, held over its finally
  result,        \* the driver's `result`: the outcome run_and_classify returned
  results,       \* the ResultSet
  clock,         \* tenths of a second spent in the current blocking call
  children,      \* the child processes spawned so far
  threads,       \* the datagram threads that are running
  server,        \* the server child's socket side
  sock,          \* the client socket s of run_test56_server, and in rx the
                 \* bytes the child has sent to it that were not read
  data,          \* the bytes s.recv returned
  buckets,       \* pass_zero, pass_nonzero, fail_tests, timeout_tests, skip_tests
  printed,       \* the five tallies of the summary, once printed
  datagrams,     \* the datagrams sent to 127.0.0.1:8080: the fixture each was
                 \* started for, the fixture whose child was the last launched
  exitStatus,    \* the exit status of the harness, once it has ended
  run,           \* 1 in the first run of the script, 2 when it is run again
  shown,         \* what each child of this run showed the harness, when the
                 \* script is to be run again
  first          \* shown and buckets of the first run, once it is run again

vars ==
  << wavecExists, testDirExists, testFiles, test28Main, pc, paths, idx, name,
     caller, stdin_data, proc_result, retval, result, results, clock, children,
     threads, server, sock, data, buckets, printed, datagrams, exitStatus,
     run, shown, first >>

\* What only running the script again changes
twin == << run, shown, first >>

env == << wavecExists, testDirExists, testFiles, test28Main >>

\* Python's None, and a name nothing is bound to yet
None == <<>>

\* An integer variable nothing is assigned to yet: no outcome, no exit status
Unbound == 0 - 99

NoServer == [bound |-> FALSE, plan |-> <<>>, closed |-> FALSE]

NoSock == [state |-> "none", rx |-> <<>>]

Init ==
  /\ wavecExists \in BOOLEAN
  /\ testDirExists \in BOOLEAN
  /\ testFiles \in SUBSET FlatNames
  /\ test28Main \in BOOLEAN
  /\ Cardinality(testFiles) + (IF test28Main THEN 1 ELSE 0) <= MaxFixtures
  /\ ~testDirExists => (testFiles = {} /\ ~test28Main)
  /\ pc = "start"
  /\ paths = <<>>
  /\ idx = 0
  /\ name = None
  /\ caller = None
  /\ stdin_data = None
  /\ proc_result = NoResult
  /\ retval = Unbound
  /\ result = Unbound
  /\ results = <<>>
  /\ clock = 0
  /\ children = <<>>
  /\ threads = {}
  /\ server = NoServer
  /\ sock = NoSock
  /\ data = <<>>
  /\ buckets = None
  /\ printed = None
  /\ datagrams = {}
  /\ exitStatus = Unbound
  /\ run = 1
  /\ shown = <<>>
  /\ first = None

\* The child of the fixture being run is the last one spawned
Child == children[Len(children)]

NewChild(n) == [fixture |-> n, alive |-> TRUE, terminated |-> FALSE, killed |-> FALSE]

SetChild(f, v) == [children EXCEPT ![Len(children)][f] = v]

\* An exception nothing catches: the traceback is printed, the interpreter exits 1
Crash ==
  /\ pc' = "crashed"
  /\ exitStatus' = 1

(* ----------------------------- the driver ----------------------------- *)

\* PreFlight with the exit(1) of line 53 left out: the message is printed and
\* the script goes on
PreFlight_no_exit ==
  /\ pc = "start"
  /\ pc' = "discover"
  /\ UNCHANGED << env, twin, datagrams, paths, idx, name, caller, stdin_data, proc_result, retval,
                  result, results, clock, children, threads, server, sock, data,
                  buckets, printed, exitStatus >>

\* lines 51-55: the pre-flight check
PreFlight ==
  /\ pc = "start"
  /\ IF ~wavecExists
     THEN /\ pc' = "exited"
          /\ exitStatus' = EXIT_NO_WAVEC
     ELSE /\ pc' = "discover"
          /\ UNCHANGED exitStatus
  /\ UNCHANGED << env, twin, datagrams, paths, idx, name, caller, stdin_data, proc_result, retval,
                  result, results, clock, children, threads, server, sock, data,
                  buckets, printed >>

\* line 186: sorted(TEST_DIR.glob("test*.wave")); a missing directory globs to nothing
Discover ==
  /\ pc = "discover"
  /\ paths' = sorted(IF testDirExists THEN testFiles ELSE {})
  /\ idx' = 1
  /\ pc' = "loop"
  /\ UNCHANGED << env, twin, datagrams, name, caller, stdin_data, proc_result, retval, result,
                  results, clock, children, threads, server, sock, data, buckets,
                  printed, exitStatus >>

\* run_and_classify is called for fixture n
Call(n, from) ==
  /\ name' = n
  /\ caller' = from
  /\ pc' = "rac"

\* lines 186-190: the next path of the loop; run_and_classify is called
LoopNext ==
  /\ pc = "loop"
  /\ idx <= Len(paths)
  /\ Call(paths[idx], "loop")
  /\ UNCHANGED << env, twin, datagrams, paths, idx, stdin_data, proc_result, retval, result,
                  results, clock, children, threads, server, sock, data, buckets,
                  printed, exitStatus >>

\* line 186: the loop is exhausted
LoopEnd ==
  /\ pc = "loop"
  /\ idx > Len(paths)
  /\ pc' = "test28"
  /\ UNCHANGED << env, twin, datagrams, paths, idx, name, caller, stdin_data, proc_result, retval,
                  result, results, clock, children, threads, server, sock, data,
                  buckets, printed, exitStatus >>

\* lines 195-200: the directory fixture, run only if its entry point exists
Test28 ==
  /\ pc = "test28"
  /\ IF test28Main
     THEN Call(N_test28_dir, "test28")
     ELSE /\ pc' = "aggregate"
          /\ UNCHANGED << name, caller >>
  /\ UNCHANGED << env, twin, datagrams, paths, idx, stdin_data, proc_result, retval, result,
                  results, clock, children, threads, server, sock, data, buckets,
                  printed, exitStatus >>

\* Record with a timed-out fixture left out of the ResultSet
Record_drops_timeouts ==
  /\ pc = "append"
  /\ results' = IF result = TIMEOUT THEN results
                ELSE Append(results, <<name, result>>)
  /\ pc' = IF caller = "loop" THEN "pause" ELSE "aggregate"
  /\ clock' = 0
  /\ stdin_data' = None
  /\ proc_result' = NoResult
  /\ retval' = Unbound
  /\ data' = <<>>
  /\ sock' = NoSock
  /\ server' = [bound |-> server.bound, plan |-> <<>>, closed |-> FALSE]
  /\ UNCHANGED << env, twin, datagrams, paths, idx, name, caller, result, children, threads,
                  buckets, printed, exitStatus >>

\* Record with results holding the latest pair only
Record_keeps_latest_only ==
  /\ pc = "append"
  /\ results' = << <<name, result>> >>
  /\ pc' = IF caller = "loop" THEN "pause" ELSE "aggregate"
  /\ clock' = 0
  /\ stdin_data' = None
  /\ proc_result' = NoResult
  /\ retval' = Unbound
  /\ data' = <<>>
  /\ sock' = NoSock
  /\ server' = [bound |-> server.bound, plan |-> <<>>, closed |-> FALSE]
  /\ UNCHANGED << env, twin, datagrams, paths, idx, name, caller, result,
                  children, threads, buckets, printed, exitStatus >>

\* lines 191 and 201: results.append((name, result)); by now the locals of
\* the call of run_and_classify that gave the result are gone
Record ==
  /\ pc = "append"
  /\ results' = Append(results, <<name, result>>)
  /\ pc' = IF caller = "loop" THEN "pause" ELSE "aggregate"
  /\ clock' = 0
  /\ stdin_data' = None
  /\ proc_result' = NoResult
  /\ retval' = Unbound
  /\ data' = <<>>
  /\ sock' = NoSock
  /\ server' = [bound |-> server.bound, plan |-> <<>>, closed |-> FALSE]
  /\ UNCHANGED << env, twin, datagrams, paths, idx, name, caller, result, children, threads,
                  buckets, printed, exitStatus >>

\* line 193: time.sleep(0.3) is over; the loop goes on
Pause ==
  /\ pc = "pause"
  /\ clock = PAUSE
  /\ idx' = idx + 1
  /\ pc' = "loop"
  /\ clock' = 0
  /\ UNCHANGED << env, twin, datagrams, paths, name, caller, stdin_data, proc_result, retval,
                  result, results, children, threads, server, sock, data, buckets,
                  printed, exitStatus >>

\* Bucket with the newest fixture first
Bucket_newest_first(code) ==
  LET hit(p) == p[2] = code
      sel == SelectSeq(results, hit)
  IN [i \in 1..Len(sel) |-> sel[Len(sel) + 1 - i][1]]

\* [name for name, r in results if r == code]
Bucket(code) ==
  LET hit(p) == p[2] = code
      sel == SelectSeq(results, hit)
  IN [i \in 1..Len(sel) |-> sel[i][1]]

\* lines 203-207: the five buckets
Aggregate ==
  /\ pc = "aggregate"
  /\ buckets' = [pass_zero |-> Bucket(1), pass_nonzero |-> Bucket(3),
                 fail_tests |-> Bucket(0), timeout_tests |-> Bucket(0 - 1),
                 skip_tests |-> Bucket(2)]
  /\ pc' = "report"
  /\ UNCHANGED << env, twin, datagrams, paths, idx, name, caller, stdin_data, proc_result, retval,
                  result, results, clock, children, threads, server, sock, data,
                  printed, exitStatus >>

\* lines 209-239: the listing and the five tallies; the script ends
Report ==
  /\ pc = "report"
  /\ printed' = [pass_zero |-> Len(buckets.pass_zero),
                 pass_nonzero |-> Len(buckets.pass_nonzero),
                 skip_tests |-> Len(buckets.skip_tests),
                 fail_tests |-> Len(buckets.fail_tests),
                 timeout_tests |-> Len(buckets.timeout_tests)]
  /\ pc' = "done"
  /\ exitStatus' = 0
  /\ UNCHANGED << env, twin, datagrams, paths, idx, name, caller, stdin_data, proc_result, retval,
                  result, results, clock, children, threads, server, sock, data,
                  buckets >>

(* ------------------- run_and_classify, standard mode ------------------ *)

\* lines 139-142 and 145-148: a daemon thread running send_udp_for_test61,
\* t tenths of a second into its time.sleep(0.5)
NewThread(n) == [fixture |-> n, t |-> 0]

\* Enter with the dispatch of lines 134-135 left out: test56.wave is run in
\* standard mode like any other fixture
Enter_without_dispatch ==
  /\ pc = "rac"
  /\ stdin_data' = IF name = N_test74 THEN <<"1","0","\n">>
                   ELSE IF name = N_test22 THEN <<"3","\n">>
                   ELSE None
  /\ pc' = "run_popen"
  /\ threads' = IF name = N_test61 \/ name = N_test62
                THEN threads \cup {NewThread(name)}
                ELSE threads
  /\ UNCHANGED << env, twin, datagrams, paths, idx, name, caller, proc_result,
                  retval, result, results, clock, children, server, sock, data,
                  buckets, printed, exitStatus >>

\* lines 125-148: stdin_data, the dispatch of test56.wave, the datagram threads
Enter ==
  /\ pc = "rac"
  /\ stdin_data' = IF name = N_test74 THEN <<"1","0","\n">>
                   ELSE IF name = N_test22 THEN <<"3","\n">>
                   ELSE None
  /\ IF name = N_test56
     THEN /\ pc' = "srv_popen"
          /\ UNCHANGED threads
     ELSE /\ pc' = "run_popen"
          /\ threads' = IF name = N_test61 \/ name = N_test62
                        THEN threads \cup {NewThread(name)}
                        ELSE threads
  /\ UNCHANGED << env, twin, datagrams, paths, idx, name, caller, proc_result, retval, result,
                  results, clock, children, server, sock, data, buckets, printed,
                  exitStatus >>

\* line 150: subprocess.run spawns the child and waits for it
RunSpawn ==
  /\ pc = "run_popen"
  /\ children' = Append(children, NewChild(name))
  /\ clock' = 0
  /\ pc' = "run_wait"
  /\ UNCHANGED << env, twin, datagrams, paths, idx, name, caller, stdin_data, proc_result, retval,
                  result, results, threads, server, sock, data, buckets, printed,
                  exitStatus >>

\* line 150: the child cannot be spawned; OSError is not caught (line 178)
RunSpawnFails ==
  /\ pc = "run_popen"
  /\ Crash
  /\ UNCHANGED << env, twin, datagrams, paths, idx, name, caller, stdin_data, proc_result, retval,
                  result, results, clock, children, threads, server, sock, data,
                  buckets, printed >>

\* classify with a nonzero exit status taken for a failure
classify_nonzero_fails(n, r) ==
  IF r.kind = "timeout"
  THEN IF n \in KNOWN_TIMEOUT THEN SKIP ELSE TIMEOUT
  ELSE IF looks_like_fail(r.stderr) THEN FAIL
  ELSE IF r.returncode = 0 THEN PASS_ZERO
  ELSE FAIL

\* classify with the captured stderr looked at before the timeout
classify_signature_first(n, r) ==
  IF looks_like_fail(r.stderr) THEN FAIL
  ELSE IF r.kind = "timeout"
  THEN IF n \in KNOWN_TIMEOUT THEN SKIP ELSE TIMEOUT
  ELSE IF r.returncode = 0 THEN PASS_ZERO
  ELSE PASS_NONZERO

\* lines 160-184: the outcome of a standard-mode run
classify(n, r) ==
  IF r.kind = "timeout"
  THEN IF n \in KNOWN_TIMEOUT THEN SKIP ELSE TIMEOUT
  ELSE IF looks_like_fail(r.stderr) THEN FAIL
  ELSE IF r.returncode = 0 THEN PASS_ZERO
  ELSE PASS_NONZERO

\* lines 150-158: the child ends within the timeout
ChildEnds ==
  /\ pc = "run_wait"
  /\ clock < TIMEOUT_SEC * 10
  /\ children' = SetChild("alive", FALSE)
  /\ clock' = 0
  /\ pc' = "run_done"
  /\ UNCHANGED << env, twin, datagrams, paths, idx, name, caller, stdin_data, proc_result, retval,
                  result, results, threads, server, sock, data, buckets, printed,
                  exitStatus >>

\* lines 150-176 and 190: subprocess.run returns the exit status and the decoded
\* output of the child; they are classified, the outcome is returned to the driver
RunCompletes ==
  /\ pc = "run_done"
  /\ \E rc \in ExitCodes, out \in StdoutTexts, err \in StderrTexts :
        /\ proc_result' = CompletedProcess(rc, out, err)
        /\ result' = classify(name, CompletedProcess(rc, out, err))
  /\ pc' = "append"
  /\ UNCHANGED << env, twin, datagrams, paths, idx, name, caller, stdin_data, retval, results,
                  clock, children, threads, server, sock, data, buckets, printed,
                  exitStatus >>

\* lines 150-158: text=True and the output is not valid UTF-8;
\* UnicodeDecodeError is not caught (line 178)
RunUndecodable ==
  /\ pc = "run_done"
  /\ Crash
  /\ UNCHANGED << env, twin, datagrams, paths, idx, name, caller, stdin_data, proc_result, retval,
                  result, results, clock, children, threads, server, sock, data,
                  buckets, printed >>

\* lines 150-158, 178-184 and 190: the timeout expires; subprocess.run kills
\* the child, waits for it and raises TimeoutExpired, which is classified
RunTimesOut ==
  /\ pc = "run_wait"
  /\ clock = TIMEOUT_SEC * 10
  /\ \E out \in StdoutTexts, err \in StderrTexts :
        /\ proc_result' = TimeoutExpired(out, err)
        /\ result' = classify(name, TimeoutExpired(out, err))
  /\ children' = [children EXCEPT ![Len(children)].killed = TRUE,
                                  ![Len(children)].alive = FALSE]
  /\ clock' = 0
  /\ pc' = "append"
  /\ UNCHANGED << env, twin, datagrams, paths, idx, name, caller, stdin_data, retval, results,
                  threads, server, sock, data, buckets, printed, exitStatus >>

(* ------------------------ the datagram thread ------------------------- *)

Ended == pc \in {"exited", "crashed", "done"}

\* lines 59-61: the sleep is over; the datagram is sent and the thread ends
ThreadSends ==
  /\ ~Ended
  /\ \E th \in threads :
        /\ th.t = UDP_DELAY
        /\ threads' = threads \ {th}
        /\ datagrams' = datagrams \cup {[fixture |-> th.fixture,
                                        launched |-> Child.fixture]}
  /\ UNCHANGED << env, twin, pc, paths, idx, name, caller, stdin_data, proc_result,
                  retval, result, results, clock, children, server, sock, data,
                  buckets, printed, exitStatus >>

\* ThreadFails with the exception of the thread ending the whole script
ThreadFails_aborts_harness ==
  /\ ~Ended
  /\ \E th \in threads :
        /\ th.t = UDP_DELAY
        /\ threads' = threads \ {th}
  /\ Crash
  /\ UNCHANGED << env, twin, datagrams, paths, idx, name, caller, stdin_data,
                  proc_result, retval, result, results, clock, children, server,
                  sock, data, buckets, printed >>

\* lines 59-60: socket() or sendto() raises; the thread ends, nobody is told
ThreadFails ==
  /\ ~Ended
  /\ \E th \in threads :
        /\ th.t = UDP_DELAY
        /\ threads' = threads \ {th}
  /\ UNCHANGED << env, twin, datagrams, pc, paths, idx, name, caller, stdin_data, proc_result,
                  retval, result, results, clock, children, server, sock, data,
                  buckets, printed, exitStatus >>

(* -------------------------------- time -------------------------------- *)

\* How long the driver's current call may block, in tenths of a second
Deadline ==
  CASE pc = "run_wait" -> TIMEOUT_SEC * 10
    [] pc = "pause" -> PAUSE
    [] pc = "srv_boot" -> BOOT_WAIT
    [] pc = "srv_recv" -> SOCK_TIMEOUT * 10
    [] pc = "srv_wait" -> TERM_WAIT * 10
    [] OTHER -> 0

\* A tenth of a second passes, for the driver's call and for every sleeping thread
Tick ==
  /\ clock < Deadline
  /\ pc = "srv_recv" => sock.rx = <<>>
  /\ \A th \in threads : th.t < UDP_DELAY
  /\ clock' = clock + 1
  /\ threads' = {[th EXCEPT !.t = @ + 1] : th \in threads}
  /\ UNCHANGED << env, twin, datagrams, pc, paths, idx, name, caller, stdin_data, proc_result,
                  retval, result, results, children, server, sock, data, buckets,
                  printed, exitStatus >>

(* ------------------- run_test56_server, the server check -------------- *)

Min(a, b) == IF a < b THEN a ELSE b

\* lines 66-72: Popen, outside the try; the child starts on its way to an answer
SrvSpawn ==
  /\ pc = "srv_popen"
  /\ children' = Append(children, NewChild(name))
  /\ \E plan \in ResponsePlans :
        server' = [bound |-> FALSE, plan |-> plan, closed |-> FALSE]
  /\ clock' = 0
  /\ pc' = "srv_boot"
  /\ UNCHANGED << env, twin, datagrams, paths, idx, name, caller, stdin_data, proc_result, retval,
                  result, results, threads, sock, data, buckets, printed,
                  exitStatus >>

\* lines 66-72: Popen raises OSError before the try is entered
SrvSpawnFails ==
  /\ pc = "srv_popen"
  /\ Crash
  /\ UNCHANGED << env, twin, datagrams, paths, idx, name, caller, stdin_data, proc_result, retval,
                  result, results, clock, children, threads, server, sock, data,
                  buckets, printed >>

\* line 75: time.sleep(1.0) is over
SrvBooted ==
  /\ pc = "srv_boot"
  /\ clock = BOOT_WAIT
  /\ pc' = "srv_connect"
  /\ clock' = 0
  /\ UNCHANGED << env, twin, datagrams, paths, idx, name, caller, stdin_data, proc_result, retval,
                  result, results, children, threads, server, sock, data, buckets,
                  printed, exitStatus >>

\* lines 77-79: socket(), settimeout(2), connect; refused unless the port is
\* bound, and then lines 93-96 hold 0 to return
SrvConnect ==
  /\ pc = "srv_connect"
  /\ IF server.bound
     THEN /\ sock' = [state |-> "connected", rx |-> <<>>]
          /\ pc' = "srv_send"
          /\ UNCHANGED retval
     ELSE /\ sock' = [state |-> "open", rx |-> <<>>]
          /\ retval' = 0
          /\ pc' = "srv_finally"
  /\ UNCHANGED << env, twin, datagrams, paths, idx, name, caller, stdin_data, proc_result, result,
                  results, clock, children, threads, server, data, buckets,
                  printed, exitStatus >>

\* line 80: sendall
SrvSend ==
  /\ pc = "srv_send"
  /\ pc' = "srv_recv"
  /\ clock' = 0
  /\ UNCHANGED << env, twin, datagrams, paths, idx, name, caller, stdin_data, proc_result, retval,
                  result, results, children, threads, server, sock, data, buckets,
                  printed, exitStatus >>

\* lines 80 and 93-96: sendall raises, the peer being gone; 0 is held to return
SrvSendFails ==
  /\ pc = "srv_send"
  /\ ~Child.alive \/ server.closed
  /\ retval' = 0
  /\ pc' = "srv_finally"
  /\ UNCHANGED << env, twin, datagrams, paths, idx, name, caller, stdin_data, proc_result, result,
                  results, clock, children, threads, server, sock, data, buckets,
                  printed, exitStatus >>

\* marker_check with any answer at all taken for the expected one
marker_check_any_answer(d) == IF d # <<>> THEN 1 ELSE 0

\* the value lines 85-91 return for the bytes read
marker_check(d) == IF Contains(MARKER, d) THEN 1 ELSE 0

\* lines 82-91: the one s.recv(4096) gives what has arrived, at most 4096 bytes
\* of it, and nothing at all once the peer has closed; s.close(); the marker
\* decides the value held to return
SrvRecv ==
  /\ pc = "srv_recv"
  /\ sock.rx # <<>> \/ server.closed
  /\ LET n == Min(RECV_BUFSIZE, Len(sock.rx))
     IN /\ data' = SubSeq(sock.rx, 1, n)
        /\ sock' = [state |-> "closed", rx |-> SubSeq(sock.rx, n + 1, Len(sock.rx))]
        /\ retval' = marker_check(SubSeq(sock.rx, 1, n))
  /\ pc' = "srv_finally"
  /\ UNCHANGED << env, twin, datagrams, paths, idx, name, caller, stdin_data, proc_result, result,
                  results, clock, children, threads, server, buckets, printed,
                  exitStatus >>

\* lines 82 and 93-96: recv raises: nothing within 2 seconds, or the connection
\* was reset; 0 is held to return
SrvRecvFails ==
  /\ pc = "srv_recv"
  /\ sock.rx = <<>>
  /\ clock = SOCK_TIMEOUT * 10 \/ ~Child.alive
  /\ retval' = 0
  /\ pc' = "srv_finally"
  /\ UNCHANGED << env, twin, datagrams, paths, idx, name, caller, stdin_data, proc_result, result,
                  results, clock, children, threads, server, sock, data, buckets,
                  printed, exitStatus >>

\* lines 98-99: proc.terminate()
SrvTerminate ==
  /\ pc = "srv_finally"
  /\ children' = SetChild("terminated", TRUE)
  /\ clock' = 0
  /\ pc' = "srv_wait"
  /\ UNCHANGED << env, twin, datagrams, paths, idx, name, caller, stdin_data, proc_result, retval,
                  result, results, threads, server, sock, data, buckets, printed,
                  exitStatus >>

\* lines 100-101, 135 and 190: proc.wait(timeout=1) returns, the child having
\* exited; the held value is returned to the driver
SrvWaited ==
  /\ pc = "srv_wait"
  /\ ~Child.alive
  /\ result' = retval
  /\ pc' = "append"
  /\ clock' = 0
  /\ UNCHANGED << env, twin, datagrams, paths, idx, name, caller, stdin_data, proc_result, retval,
                  results, children, threads, server, sock, data, buckets, printed,
                  exitStatus >>

\* lines 102-103, 135 and 190: the wait times out; proc.kill() sends SIGKILL
\* and returns at once; the held value is returned to the driver
SrvKill ==
  /\ pc = "srv_wait"
  /\ Child.alive
  /\ clock = TERM_WAIT * 10
  /\ children' = SetChild("killed", TRUE)
  /\ result' = retval
  /\ pc' = "append"
  /\ clock' = 0
  /\ UNCHANGED << env, twin, datagrams, paths, idx, name, caller, stdin_data, proc_result, retval,
                  results, threads, server, sock, data, buckets, printed,
                  exitStatus >>

(* --------------------------- the server child ------------------------- *)

InServerCheck ==
  pc \in {"srv_boot", "srv_connect", "srv_send", "srv_recv", "srv_finally",
          "srv_wait"}

\* The child binds and listens on 127.0.0.1:8080
ChildBinds ==
  /\ pc = "srv_boot"
  /\ Child.alive
  /\ ~server.bound
  /\ server' = [server EXCEPT !.bound = TRUE]
  /\ UNCHANGED << env, twin, datagrams, pc, paths, idx, name, caller, stdin_data, proc_result,
                  retval, result, results, clock, children, threads, sock, data,
                  buckets, printed, exitStatus >>

\* The child sends the next segment of its answer to the request
ChildAnswers ==
  /\ pc \in {"srv_recv", "srv_finally"}
  /\ sock.state \in {"connected", "closed"}
  /\ Child.alive
  /\ ~server.closed
  /\ server.plan # <<>>
  /\ sock' = [sock EXCEPT !.rx = @ \o Head(server.plan)]
  /\ server' = [server EXCEPT !.plan = Tail(@)]
  /\ UNCHANGED << env, twin, datagrams, pc, paths, idx, name, caller, stdin_data, proc_result,
                  retval, result, results, clock, children, threads, data,
                  buckets, printed, exitStatus >>

\* The child closes the connection
ChildCloses ==
  /\ pc = "srv_recv"
  /\ Child.alive
  /\ ~server.closed
  /\ server' = [server EXCEPT !.closed = TRUE]
  /\ UNCHANGED << env, twin, datagrams, pc, paths, idx, name, caller, stdin_data, proc_result,
                  retval, result, results, clock, children, threads, sock, data,
                  buckets, printed, exitStatus >>

\* The child exits: of itself, or on the SIGTERM of proc.terminate()
ChildExits ==
  /\ InServerCheck
  /\ Child.alive
  /\ children' = SetChild("alive", FALSE)
  /\ server' = [bound |-> FALSE, plan |-> <<>>, closed |-> TRUE]
  /\ UNCHANGED << env, twin, datagrams, pc, paths, idx, name, caller, stdin_data, proc_result,
                  retval, result, results, clock, threads, sock, data, buckets,
                  printed, exitStatus >>

\* SIGKILL takes effect: a child proc.kill() was called on is gone
ChildDies ==
  /\ \E i \in 1..Len(children) :
        /\ children[i].alive
        /\ children[i].killed
        /\ children' = [children EXCEPT ![i].alive = FALSE]
  /\ server' = [server EXCEPT !.bound = FALSE]
  /\ UNCHANGED << env, twin, datagrams, pc, paths, idx, name, caller, stdin_data, proc_result,
                  retval, result, results, clock, threads, sock, data, buckets,
                  printed, exitStatus >>

(* --------------------------- specification ---------------------------- *)

Next ==
  \/ PreFlight \/ Discover \/ LoopNext \/ LoopEnd \/ Test28 \/ Record \/ Pause
  \/ Aggregate \/ Report
  \/ Enter \/ RunSpawn \/ RunSpawnFails \/ ChildEnds \/ RunCompletes
  \/ RunUndecodable
  \/ RunTimesOut
  \/ ThreadSends \/ ThreadFails \/ Tick
  \/ SrvSpawn \/ SrvSpawnFails \/ SrvBooted \/ SrvConnect \/ SrvSend
  \/ SrvSendFails \/ SrvRecv \/ SrvRecvFails
  \/ SrvTerminate \/ SrvWaited \/ SrvKill
  \/ ChildBinds \/ ChildAnswers \/ ChildCloses \/ ChildExits \/ ChildDies

Spec == Init /\ [][Next]_vars

\* What the child of the call that has just returned showed the harness: the
\* exit status, output and timeout of subprocess.run, or whether the server
\* accepted the connection and the bytes it answered with
Behaviour ==
  IF name = N_test56
  THEN [connected |-> sock.state \in {"connected", "closed"},
        response |-> data \o sock.rx]
  ELSE proc_result

\* When the script is to be run again, what the child showed is noted as soon
\* as its call has returned
Observe ==
  /\ pc = "append"
  /\ Len(shown) = Len(results)
  /\ shown' = Append(shown, Behaviour)
  /\ UNCHANGED << env, pc, paths, idx, name, caller, stdin_data, proc_result,
                  retval, result, results, clock, children, threads, server,
                  sock, data, buckets, printed, datagrams, exitStatus, run,
                  first >>

\* The script has ended with its summary and is run again, the test directory
\* and the compiler being what they were
Rerun ==
  /\ pc = "done"
  /\ run = 1
  /\ run' = 2
  /\ first' = [shown |-> shown, buckets |-> buckets]
  /\ shown' = <<>>
  /\ pc' = "start"
  /\ paths' = <<>>
  /\ idx' = 0
  /\ name' = None
  /\ caller' = None
  /\ stdin_data' = None
  /\ proc_result' = NoResult
  /\ retval' = Unbound
  /\ result' = Unbound
  /\ results' = <<>>
  /\ clock' = 0
  /\ children' = <<>>
  /\ threads' = {}
  /\ server' = NoServer
  /\ sock' = NoSock
  /\ data' = <<>>
  /\ buckets' = None
  /\ printed' = None
  /\ datagrams' = {}
  /\ exitStatus' = Unbound
  /\ UNCHANGED env

\* The script run twice over one fixture
RerunInit ==
  /\ Init
  /\ wavecExists
  /\ Cardinality(testFiles) + (IF test28Main THEN 1 ELSE 0) = 1

RerunNext ==
  \/ /\ pc = "append" => Len(shown) = Len(results) + 1
     /\ Next
  \/ Observe
  \/ Rerun

RerunSpec == RerunInit /\ [][RerunNext]_vars

\* The steps the interpreter itself takes in the main thread: once one of them
\* can be taken, the script does not stand still
HarnessStep ==
  \/ PreFlight \/ Discover \/ LoopNext \/ LoopEnd \/ Test28 \/ Record \/ Pause
  \/ Aggregate \/ Report
  \/ Enter \/ RunSpawn \/ RunCompletes \/ RunTimesOut
  \/ SrvSpawn \/ SrvBooted \/ SrvConnect \/ SrvSend \/ SrvRecv \/ SrvRecvFails
  \/ SrvTerminate \/ SrvWaited \/ SrvKill

\* The same program where the interpreter keeps running, time keeps passing and
\* a datagram thread whose sleep is over gets to run.  Nothing is promised of
\* the children: a child may never exit, never bind, never answer.  (Every
\* harness step changes pc, every tick clock, every thread step threads.)
FairSpec ==
  /\ Spec
  /\ WF_pc(HarnessStep)
  /\ WF_clock(Tick)
  /\ WF_threads(ThreadSends \/ ThreadFails)

(* ------------------------------ claims -------------------------------- *)

\* What discovery finds: the flat files in sorted order, then the directory
\* fixture if its entry point exists
Discovered ==
  sorted(IF testDirExists THEN testFiles ELSE {})
    \o (IF test28Main THEN <<N_test28_dir>> ELSE <<>>)

\* The driver is past the last fixture
AllProcessed == pc \in {"aggregate", "report", "done"}

\* C1: once the pre-flight check has passed and the driver has processed all
\* discovered fixtures, results holds exactly one (fixture, outcome) pair per
\* discovered fixture, in discovery order, each outcome one of the five codes,
\* the last pair holding the outcome the last run returned.
C1_OneOutcomePerFixture ==
  /\ AllProcessed =>
        /\ Len(results) = Len(Discovered)
        /\ \A i \in 1..Len(results) :
              /\ results[i][1] = Discovered[i]
              /\ results[i][2] \in Outcomes
  /\ (results # <<>> /\ pc # "append") => results[Len(results)][2] = result

C1_Witness ==
  /\ pc = "done"
  /\ Len(results) = 2
  /\ results[1][1] = N_test61
  /\ results[1][2] = TIMEOUT
  /\ results[2][1] = N_test62
  /\ results[2][2] = FAIL

\* The letters, each capital with its small letter
CasePairs ==
  { <<"A","a">>, <<"B","b">>, <<"C","c">>, <<"D","d">>, <<"E","e">>,
    <<"F","f">>, <<"G","g">>, <<"H","h">>, <<"I","i">>, <<"J","j">>,
    <<"K","k">>, <<"L","l">>, <<"M","m">>, <<"N","n">>, <<"O","o">>,
    <<"P","p">>, <<"Q","q">>, <<"R","r">>, <<"S","s">>, <<"T","t">>,
    <<"U","u">>, <<"V","v">>, <<"W","w">>, <<"X","x">>, <<"Y","y">>,
    <<"Z","z">> }

\* Two characters that differ at most in case
SameLetter(a, b) == a = b \/ <<a, b>> \in CasePairs \/ <<b, a>> \in CasePairs

\* Text s holds pattern p somewhere, case aside
OccursIgnoringCase(p, s) ==
  \E off \in 0..(Len(s) - Len(p)) :
     \A i \in 1..Len(p) : SameLetter(s[off + i], p[i])

\* Text s holds a failure signature, case aside.  No signature begins or ends
\* with whitespace, so trimming s changes nothing here.
HasFailureSignature(s) ==
  \E k \in 1..Len(FAIL_PATTERNS) : OccursIgnoringCase(FAIL_PATTERNS[k], s)

\* A standard-mode run has just returned its outcome, the child having ended
\* within the timeout
CompletedRun == pc = "append" /\ proc_result.kind = "completed"

\* A standard-mode run has just returned its outcome, the timeout having expired
TimedOutRun == pc = "append" /\ proc_result.kind = "timeout"

\* C2: a standard-mode run that completes within the timeout with a failure
\* signature on stderr (case aside) is FAIL for every exit status, 0 included;
\* a signature on stdout alone does not make it FAIL.
C2_SignatureOnStderrFails ==
  CompletedRun =>
     (result = FAIL <=> HasFailureSignature(proc_result.stderr))

C2_Witness ==
  /\ CompletedRun
  /\ proc_result.returncode = 0
  /\ HasFailureSignature(proc_result.stderr)
  /\ ~Contains(FAIL_PATTERNS[9], proc_result.stderr)
  /\ OccursIgnoringCase(FAIL_PATTERNS[9], proc_result.stderr)
  /\ result = FAIL

\* C3: a standard-mode run that completes within the timeout with stderr free
\* of every failure signature is PASS_ZERO exactly if the exit status is 0 and
\* PASS_NONZERO for every other exit status.
C3_CleanStderrPassesByExitStatus ==
  (CompletedRun /\ ~HasFailureSignature(proc_result.stderr)) =>
     /\ result = PASS_ZERO <=> proc_result.returncode = 0
     /\ result = PASS_NONZERO <=> proc_result.returncode # 0

C3_Witness ==
  /\ CompletedRun
  /\ proc_result.returncode = 0 - 11
  /\ proc_result.stderr # <<>>
  /\ Strip(proc_result.stderr) = <<>>
  /\ result = PASS_NONZERO

\* C4: a standard-mode run that does not complete within the timeout is SKIP
\* if the fixture is in the known-timeout allowlist and TIMEOUT otherwise,
\* whatever it wrote to stderr before the timeout: never FAIL, PASS_ZERO or
\* PASS_NONZERO.
C4_TimeoutRuleFirst ==
  TimedOutRun =>
     /\ result = IF name \in KNOWN_TIMEOUT THEN SKIP ELSE TIMEOUT
     /\ result \notin {FAIL, PASS_ZERO, PASS_NONZERO}

C4_Witness ==
  /\ TimedOutRun
  /\ HasFailureSignature(proc_result.stderr)
  /\ result = TIMEOUT

\* The server check has just returned its outcome to the driver
ServerCheckReturned == pc = "append" /\ name = N_test56

\* Bytes d hold the marker
MarkerIn(d) ==
  \E off \in 0..(Len(d) - Len(MARKER)) :
     \A i \in 1..Len(MARKER) : d[off + i] = MARKER[i]

\* C5: in the server check a PASS is returned only if the bytes read from the
\* client connection hold the marker; every other path (refused connection,
\* failed send, read timeout or reset, answer without the marker) gives FAIL.
C5_PassOnlyWithMarker ==
  ServerCheckReturned =>
     /\ result \in {PASS_ZERO, FAIL}
     /\ result = PASS_ZERO <=> (sock.state = "closed" /\ MarkerIn(data))

C5_Witness ==
  /\ ServerCheckReturned
  /\ sock.state = "closed"
  /\ data # <<>>
  /\ ~MarkerIn(data)
  /\ result = FAIL

\* C6: in the server check, if the child binds the port and sends an answer
\* holding the marker within the connect/read timeout, the fixture is PASS,
\* however the bytes of the answer reach the client.
C6_MarkerSentMeansPass ==
  (ServerCheckReturned /\ sock.state = "closed" /\ MarkerIn(data \o sock.rx))
     => result = PASS_ZERO

\* C7: the server child is torn down on every exit path of the check: a
\* terminate is always issued, a kill only after a terminate, and the child is
\* not running when run_test56_server returns its outcome.
C7_ChildGoneAtReturn ==
  ServerCheckReturned =>
     /\ Child.fixture = N_test56
     /\ Child.terminated
     /\ Child.killed => Child.terminated
     /\ ~Child.alive

\* C8: no single fixture's failure stops the harness: once the pre-flight
\* check has passed, the harness ends only by printing the final summary,
\* with an outcome recorded for every discovered fixture.
C8_NoFixtureStopsTheHarness ==
  (wavecExists /\ Ended) =>
     /\ pc = "done"
     /\ Len(results) = Len(Discovered)

\* C9: with the compiler binary absent at start-up the harness exits with a
\* nonzero status before any fixture is discovered or run: no child is
\* spawned, no thread started, no outcome recorded, no summary printed.
C9_NoWavecNoRun ==
  ~wavecExists =>
     /\ pc \in {"start", "exited"}
     /\ pc = "exited" => exitStatus # 0
     /\ paths = <<>>
     /\ children = <<>>
     /\ threads = {}
     /\ results = <<>>
     /\ printed = None

C9_Witness ==
  /\ ~wavecExists
  /\ testFiles # {}
  /\ pc = "exited"
  /\ exitStatus = 1

\* C10: a missing test directory is a fatal configuration error: the harness
\* does not go on to an empty fixture list and a normal summary.
C10_MissingTestDirIsFatal ==
  ~testDirExists => ~(pc = "done" /\ results = <<>> /\ exitStatus = 0)

\* A call of run_and_classify is under way
InCall == pc \notin {"start", "discover", "loop", "test28", "append", "pause",
                     "aggregate", "report", "done", "exited", "crashed"}

\* C11: no run blocks the harness for ever: whatever the child does, the call
\* that runs a fixture eventually returns an outcome, and once the pre-flight
\* check has passed the harness eventually reaches the summary.
C11_EveryRunReturnsAnOutcome ==
  /\ [](InCall => <>(pc = "append"))
  /\ [](pc = "discover" => <>(pc = "done"))

\* The children that are running
Alive == {i \in 1..Len(children) : children[i].alive}

\* C12: fixtures never run concurrently: at every point at most one fixture
\* child is alive, and every child but the last one launched has exited or
\* been killed.
C12_OneChildAtATime ==
  /\ Cardinality(Alive) <= 1
  /\ \A i \in 1..(Len(children) - 1) :
        ~children[i].alive \/ children[i].killed

\* The fixtures a datagram thread is started for
DatagramFixtures == {N_test61, N_test62}

\* The outcome the classification rules of standard mode give run r of fixture n
StandardOutcome(n, r) ==
  CASE r.kind = "timeout" /\ n \in KNOWN_TIMEOUT -> SKIP
    [] r.kind = "timeout" /\ n \notin KNOWN_TIMEOUT -> TIMEOUT
    [] r.kind = "completed" /\ HasFailureSignature(r.stderr) -> FAIL
    [] r.kind = "completed" /\ ~HasFailureSignature(r.stderr)
         /\ r.returncode = 0 -> PASS_ZERO
    [] r.kind = "completed" /\ ~HasFailureSignature(r.stderr)
         /\ r.returncode # 0 -> PASS_NONZERO

\* A step in which a datagram thread ends, its datagram sent or not
AThreadEnds ==
  \E th \in threads : \A u \in threads' : u.fixture # th.fixture

\* C13: the datagram stimulus is fire-and-forget: no step of the main run
\* ends a thread (nothing is cancelled), the end of a thread, datagram sent or
\* not, changes nothing of the main run and does not end the harness, and the
\* outcome of a datagram fixture is the one the rules of standard mode give
\* for its run, whatever has become of the thread.
C13_StimulusIsFireAndForget ==
  /\ []((pc = "append" /\ name \in DatagramFixtures) =>
          /\ proc_result.kind \in {"completed", "timeout"}
          /\ result = StandardOutcome(name, proc_result))
  /\ [][/\ (pc' # pc) => ~AThreadEnds
        /\ AThreadEnds => UNCHANGED << pc, result, results, proc_result,
                                       children, clock, exitStatus >>]_vars

\* Both orders: the child of test61.wave outlived its thread, whose datagram
\* was sent, and the child of test62.wave has ended with its thread still asleep
C13_Witness ==
  /\ results = << <<N_test61, TIMEOUT>> >>
  /\ [fixture |-> N_test61, launched |-> N_test61] \in datagrams
  /\ pc = "append"
  /\ name = N_test62
  /\ \E th \in threads : th.fixture = N_test62 /\ th.t < UDP_DELAY
  /\ result = PASS_ZERO

\* Name a comes before name b in lexicographic order of code points
RECURSIVE LexBefore(_, _)
LexBefore(a, b) ==
  IF a = <<>> THEN b # <<>>
  ELSE IF b = <<>> THEN FALSE
  ELSE IF Head(a) = Head(b) THEN LexBefore(Tail(a), Tail(b))
  ELSE Ord(Head(a)) < Ord(Head(b))

\* The fixtures run_and_classify has been called for so far, in order
Processed ==
  [i \in 1..Len(results) |-> results[i][1]]
    \o (IF InCall \/ pc = "append" THEN <<name>> ELSE <<>>)

IsFlat(n) == n # N_test28_dir

\* C14: the flat fixtures are processed in lexicographic order of file name,
\* each file of the test directory once, and the directory fixture is
\* processed last, after all of them, exactly if its entry point exists.
C14_DiscoveryOrder ==
  LET flat == SelectSeq(Processed, IsFlat)
      flatSet == {flat[i] : i \in 1..Len(flat)}
  IN /\ \A i \in 1..(Len(flat) - 1) : LexBefore(flat[i], flat[i + 1])
     /\ flatSet \subseteq testFiles
     /\ \A i \in 1..Len(Processed) :
           Processed[i] = N_test28_dir =>
              /\ i = Len(Processed)
              /\ test28Main
              /\ flatSet = testFiles
     /\ AllProcessed =>
           /\ flatSet = testFiles
           /\ test28Main <=> (Processed # <<>>
                               /\ Processed[Len(Processed)] = N_test28_dir)

C14_Witness ==
  /\ pc = "done"
  /\ Processed = <<N_test61, <<"t","e","s","t","7",".","w","a","v","e">> >>

\* C15: the script run twice over the same fixtures and the same compiler,
\* every child showing in the second run what it showed in the first (exit
\* status, output, timeout, answer of the server), ends with the same buckets.
C15_SameChildrenSameBuckets ==
  (run = 2 /\ pc = "done" /\ shown = first.shown) => buckets = first.buckets

\* The five buckets, each with the outcome it is for
BucketOf ==
  [pass_zero |-> PASS_ZERO, pass_nonzero |-> PASS_NONZERO, fail_tests |-> FAIL,
   timeout_tests |-> TIMEOUT, skip_tests |-> SKIP]

\* The buckets have been built
Aggregated == pc \in {"report", "done"}

\* Where fixture n stands in the ResultSet
PlaceOf(n) == CHOOSE i \in 1..Len(results) : results[i][1] = n

\* C16: once the buckets are built every pair of the ResultSet is in exactly
\* one bucket, the one of its outcome; a bucket holds nothing else and keeps
\* the order of the ResultSet; the five tallies printed are the sizes of the
\* buckets and sum to the number of pairs.
C16_EveryPairInOneBucket ==
  /\ Aggregated =>
        /\ \A i \in 1..Len(results), b \in DOMAIN BucketOf :
              (\E k \in 1..Len(buckets[b]) : buckets[b][k] = results[i][1])
                 <=> results[i][2] = BucketOf[b]
        /\ \A b \in DOMAIN BucketOf :
              /\ \A k \in 1..Len(buckets[b]) :
                    \E i \in 1..Len(results) : results[i][1] = buckets[b][k]
              /\ \A k \in 1..(Len(buckets[b]) - 1) :
                    PlaceOf(buckets[b][k]) < PlaceOf(buckets[b][k + 1])
        /\ Len(buckets.pass_zero) + Len(buckets.pass_nonzero)
             + Len(buckets.fail_tests) + Len(buckets.timeout_tests)
             + Len(buckets.skip_tests) = Len(results)
  /\ pc = "done" =>
        /\ \A b \in DOMAIN BucketOf : printed[b] = Len(buckets[b])
        /\ printed.pass_zero + printed.pass_nonzero + printed.fail_tests
             + printed.timeout_tests + printed.skip_tests = Len(results)

C16_Witness ==
  /\ pc = "done"
  /\ buckets.pass_nonzero = <<N_test61, N_test62>>
  /\ printed.pass_nonzero = 2
  /\ printed.pass_zero = 0

\* The fixtures an outcome has been recorded for
Recorded == {results[i][1] : i \in 1..Len(results)}

\* An outcome has been recorded for every fixture there is to discover
Complete ==
  Recorded = testFiles \cup (IF test28Main THEN {N_test28_dir} ELSE {})

\* C17: the ResultSet only grows, one pair at a time at its end, the pairs it
\* holds never changed or removed; and no bucket is built and nothing of the
\* summary printed before an outcome is recorded for every discovered fixture.
C17_AppendOnlyAndCompleteFirst ==
  /\ [][\/ results' = results
        \/ /\ Len(results') = Len(results) + 1
           /\ SubSeq(results', 1, Len(results)) = results]_vars
  /\ [](Complete \/ (buckets = None /\ printed = None))
  /\ [](Aggregated => Len(results) = Cardinality(Recorded))

C17_Witness ==
  /\ pc = "report"
  /\ results = << <<N_test56, FAIL>>, <<N_test62, TIMEOUT>> >>
  /\ buckets.fail_tests = <<N_test56>>
  /\ printed = None

\* The driver is in standard mode: at subprocess.run or just back from it
InStandardMode == pc \in {"run_popen", "run_wait", "run_done"}

\* C18: test56.wave and no other fixture is run by the server check, and it
\* is dispatched before anything of standard mode: for test56.wave there is
\* no subprocess.run and so no child of standard mode, no datagram thread
\* and no datagram, and its outcome is PASS_ZERO or FAIL; for every other
\* fixture there is no server child, no client socket and no answer read.
C18_OnlyTest56UsesTheServerCheck ==
  /\ (pc = "srv_popen" \/ InServerCheck) => name = N_test56
  /\ InStandardMode => name # N_test56
  /\ name = N_test56 => proc_result = NoResult
  /\ Cardinality({i \in 1..Len(children) : children[i].fixture = N_test56}) <= 1
  /\ \A th \in threads : th.fixture # N_test56
  /\ \A d \in datagrams : d.fixture # N_test56
  /\ (pc = "append" /\ name = N_test56) => result \in {PASS_ZERO, FAIL}
  /\ \A i \in 1..Len(results) :
        results[i][1] = N_test56 => results[i][2] \in {PASS_ZERO, FAIL}
  /\ name # N_test56 =>
        /\ sock = NoSock
        /\ data = <<>>
        /\ retval = Unbound
        /\ server.plan = <<>>

C18_Witness ==
  /\ pc = "done"
  /\ Len(results) = 2
  /\ results[1] = <<N_test56, PASS_ZERO>>
  /\ results[2] = <<N_test61, FAIL>>
  /\ Len(children) = 2
  /\ datagrams = {[fixture |-> N_test61, launched |-> N_test61]}

\* C19: in standard mode, when the timeout expires the child is first asked
\* to terminate and is killed only after that; the child is not running when
\* the timeout outcome is returned for recording.
C19_GracefulThenForced ==
  TimedOutRun =>
     /\ Child.fixture = name
     /\ Child.terminated
     /\ Child.killed => Child.terminated
     /\ ~Child.alive

\* C20: a datagram started for a fixture is sent while that fixture's child
\* is the last one launched: never after the run of the fixture is over and
\* the child of the next fixture has been launched.
C20_DatagramStaysInItsRun ==
  \A d \in datagrams : d.launched = d.fixture

\* C21: in the server check the client socket the harness opened is closed
\* on every exit path, when run_test56_server returns its outcome: PASS,
\* missing marker, refused connection, failed send, read timeout or reset.
C21_ClientSocketClosedAtReturn ==
  ServerCheckReturned => sock.state \in {"none", "closed"}

=============================================================================
